---- MODULE Spec2Model ----
(***************************************************************************)
(* The connection-multiplexing core of the chat server, src/src/server.py. *)
(*                                                                         *)
(* The server is one thread running Server.listen: it selects on the       *)
(* listening socket and the sockets of Server.connections and, for each    *)
(* readable socket, either accepts a connection or runs process_socket to  *)
(* completion.  Each action below is one such step, with every send the    *)
(* handler makes.  The frames sent by the most recent step are kept in     *)
(* `sent`, in the order of the sendall calls, and `last` records what the  *)
(* step was and the registry it started from.                              *)
(*                                                                         *)
(* `codec` is the header codec of src/src/packet.py at work on one header: *)
(* the event loop never touches it; SpecCodec runs it alone.               *)
(* `broken` holds the sockets on which sendall raises (the peer is gone     *)
(* and the kernel knows): empty unless SpecFault breaks one.               *)
(* `inbuf` holds, for each socket, the bytes of a frame a client has       *)
(* written that have reached the server and are not read yet, and          *)
(* `blocked` is the socket on which the event loop waits inside            *)
(* recv(expected_size), 0 when it waits on none: SpecNet moves them, the   *)
(* other specifications hand process_socket whole packets.                 *)
(* `proc` is the life of the server process: whether run_server has got   *)
(* to listen, whether the listening socket is bound, whether the process   *)
(* has exited.  `client` is one client of src/src2/client.py with its two  *)
(* threads; SpecClient runs it against a server that only answers claims.  *)
(* `errors` holds the logging.error records of the most recent step.       *)
(* `departed` holds the usernames that a disconnect took out of the        *)
(* registry and that nobody has held since.                                *)
(*                                                                         *)
(* Strings are Python str values.  None is Python's None: a value that is  *)
(* no str.  Python tests `if x` on str-or-None values are Truthy(x): the   *)
(* empty string is as false as None.                                       *)
(***************************************************************************)
EXTENDS Integers, Sequences, FiniteSets, TLC

VARIABLES connections, accepted, closed, running, last, sent, departed, errors,
          codec, broken, inbuf, blocked, proc, client

vars == <<connections, accepted, closed, running, last, sent, departed,
          errors, codec, broken, inbuf, blocked, proc, client>>

\* What a step of the event loop leaves alone.
aux == <<codec, broken, inbuf, blocked, proc, client>>

\* What the codec leaves alone.
server == <<connections, accepted, closed, running, last, sent, departed,
            errors, broken, inbuf, blocked, proc, client>>

\* What the client of src/src2/client.py leaves alone.
outside == <<connections, accepted, closed, running, last, sent, departed,
             errors, codec, broken, inbuf, blocked, proc>>

\* Sockets the listening socket hands out over one run: 1..MaxSock.
MaxSock == 3

None == "<None>"

Names == {"alice", "bob"}

\* What params.get(key) can return for a str parameter of a received header:
\* a name, the empty string, or None when the header has no such parameter.
ParamValues == Names \cup {"", None}

Messages == {"hello", "hi"}

Sockets == 1..MaxSock

\* f'{x}' for a str-or-None x.
Str(x) == IF x = None THEN "None" ELSE x

\* Python truthiness of a str-or-None value (`if conn.username`, `if recipient`).
Truthy(x) == x # None /\ x # ""

Range(s) == {s[i] : i \in 1..Len(s)}

Min(S) == CHOOSE m \in S : \A n \in S : m <= n

\* ClientConnection.__init__
ClientConnection(socket) == [socket |-> socket, username |-> None]

\* encode_header(type, size, **params): the header of a frame.  The only
\* parameter the server puts in a header it sends here is sender.
encode_header(type, size, sender) ==
    [type |-> type, size |-> size, sender |-> sender]

\* header + message
Frame(header, message) == [header |-> header, payload |-> message]

\* One sendall(data) on a connection's socket.
Send(socket, data) == [to |-> socket, data |-> data]

\* ", ".join(names)
RECURSIVE JoinNames(_)
JoinNames(names) ==
    IF Len(names) = 0 THEN ""
    ELSE IF Len(names) = 1 THEN names[1]
    ELSE names[1] \o ", " \o JoinNames(Tail(names))

\* Server.get_conn_by_socket: the index of the connection, 0 for None.
get_conn_by_socket(conns, socket) ==
    LET idx == {i \in 1..Len(conns) : conns[i].socket = socket}
    IN  IF idx = {} THEN 0 ELSE Min(idx)

get_connected_users(conns) ==
    LET named == SelectSeq(conns, LAMBDA c : Truthy(c.username))
    IN  [i \in 1..Len(named) |-> named[i].username]

\* conn.socket.sendall(data): the frame goes out, or the call raises.
sendall(socket, data) ==
    IF socket \in broken
    THEN [sent |-> <<>>, raised |-> TRUE]
    ELSE [sent |-> <<Send(socket, data)>>, raised |-> FALSE]

\* `break` where broadcast has `continue`: the loop ends at the first
\* excluded connection.
broadcast_break(conns, data, exclude) ==
    LET stop    == {i \in 1..Len(conns) : conns[i].username \in exclude}
        reached == IF stop = {} THEN conns ELSE SubSeq(conns, 1, Min(stop) - 1)
    IN  [sent   |-> [i \in 1..Len(reached) |-> Send(reached[i].socket, data)],
         raised |-> FALSE]

\* Server.broadcast: the loop ends at the first sendall that raises.
broadcast(conns, data, exclude) ==
    LET targets == SelectSeq(conns, LAMBDA c : c.username \notin exclude)
        failing == {i \in 1..Len(targets) : targets[i].socket \in broken}
        reached == IF failing = {} THEN targets
                   ELSE SubSeq(targets, 1, Min(failing) - 1)
    IN  [sent   |-> [i \in 1..Len(reached) |-> Send(reached[i].socket, data)],
         raised |-> failing # {}]

\* An exception where unicast only logs that the recipient is not connected.
unicast_raise(conns, data, recipient) ==
    LET idx == {i \in 1..Len(conns) : conns[i].username = recipient}
    IN  [sent   |-> IF idx = {} THEN <<>>
                    ELSE <<Send(conns[Min(idx)].socket, data)>>,
         raised |-> idx = {}]

unicast(conns, data, recipient) ==
    LET idx == {i \in 1..Len(conns) : conns[i].username = recipient}
    IN  IF idx = {} THEN [sent |-> <<>>, raised |-> FALSE]
        ELSE sendall(conns[Min(idx)].socket, data)

\* The reply broadcast where handle_duplicate_username sends it to conn only.
handle_duplicate_username_all(conns, i) ==
    LET message == JoinNames(get_connected_users(conns))
        header  == encode_header("DUPLICATE_USERNAME", Len(message), None)
        out     == broadcast(conns, Frame(header, message), {})
    IN  [connections |-> conns, sent |-> out.sent, raised |-> out.raised]

handle_duplicate_username(conns, i) ==
    LET message == JoinNames(get_connected_users(conns))
        header  == encode_header("DUPLICATE_USERNAME", Len(message), None)
        out     == sendall(conns[i].socket, Frame(header, message))
    IN  [connections |-> conns, sent |-> out.sent, raised |-> out.raised]

\* The join broadcast without its exclude list.
accept_username_noexclude(conns, i, username) ==
    LET named   == [conns EXCEPT ![i].username = username]
        joined  == Str(username) \o " has joined"
        join    == broadcast(named,
                       Frame(encode_header("ANNOUNCEMENT", Len(joined), None),
                             joined),
                       {})
        welcome == "Welcome to the server, " \o Str(username) \o "!"
        greet   == unicast(named,
                       Frame(encode_header("ANNOUNCEMENT", Len(welcome), None),
                             welcome),
                       username)
    IN  [connections |-> named,
         sent        |-> join.sent \o greet.sent,
         raised      |-> join.raised \/ greet.raised]

\* process_username_packet once the name is found free: the connection
\* takes it, the others are told, the connection is welcomed.
accept_username(conns, i, username) ==
    LET named   == [conns EXCEPT ![i].username = username]
        joined  == Str(username) \o " has joined"
        join    == broadcast(named,
                       Frame(encode_header("ANNOUNCEMENT", Len(joined), None),
                             joined),
                       {username})
        welcome == "Welcome to the server, " \o Str(username) \o "!"
        greet   == unicast(named,
                       Frame(encode_header("ANNOUNCEMENT", Len(welcome), None),
                             welcome),
                       username)
    IN  IF join.raised
        THEN [connections |-> named, sent |-> join.sent, raised |-> TRUE]
        ELSE [connections |-> named,
              sent        |-> join.sent \o greet.sent,
              raised      |-> greet.raised]

\* The duplicate check left out.
process_username_packet_nocheck(conns, i, username) ==
    accept_username(conns, i, username)

\* The `return` after handle_duplicate_username left out.
process_username_packet_noreturn(conns, i, username) ==
    IF username \in Range(get_connected_users(conns))
    THEN LET dup == handle_duplicate_username(conns, i)
             acc == accept_username(conns, i, username)
         IN  [connections |-> acc.connections,
              sent        |-> dup.sent \o acc.sent,
              raised      |-> acc.raised]
    ELSE accept_username(conns, i, username)

process_username_packet(conns, i, username) ==
    IF username \in Range(get_connected_users(conns))
    THEN handle_duplicate_username(conns, i)
    ELSE accept_username(conns, i, username)

\* The sender not excluded from the broadcast of its own message.
process_message_packet_echo(conns, i, recipient, message) ==
    LET header == encode_header("IN_MESSAGE", Len(message), conns[i].username)
        data   == Frame(header, message)
        out    == IF Truthy(recipient)
                  THEN unicast(conns, data, recipient)
                  ELSE broadcast(conns, data, {})
    IN  [connections |-> conns, sent |-> out.sent, raised |-> out.raised]

process_message_packet(conns, i, recipient, message) ==
    LET header == encode_header("IN_MESSAGE", Len(message), conns[i].username)
        data   == Frame(header, message)
        out    == IF Truthy(recipient)
                  THEN unicast(conns, data, recipient)
                  ELSE broadcast(conns, data, {conns[i].username})
    IN  [connections |-> conns, sent |-> out.sent, raised |-> out.raised]

\* self.connections.remove(conn) left out.
close_conn_noremove(conns, i) ==
    LET left == Str(conns[i].username) \o " has left"
        out  == broadcast(conns,
                    Frame(encode_header("ANNOUNCEMENT", Len(left), None), left),
                    {conns[i].username})
    IN  [connections |-> conns, sent |-> out.sent, raised |-> out.raised,
         closed |-> {conns[i].socket}]

\* Server.close_conn: the socket is shut down and closed, the others are told,
\* the connection is removed.
close_conn(conns, i) ==
    LET left == Str(conns[i].username) \o " has left"
        out  == broadcast(conns,
                    Frame(encode_header("ANNOUNCEMENT", Len(left), None), left),
                    {conns[i].username})
    IN  IF out.raised
        THEN [connections |-> conns, sent |-> out.sent, raised |-> TRUE,
              closed |-> {conns[i].socket}]
        ELSE [connections |-> SelectSeq(conns, LAMBDA c : c # conns[i]),
              sent        |-> out.sent,
              raised      |-> FALSE,
              closed      |-> {conns[i].socket}]

(***************************************************************************)
(* The header codec, src/src/packet.py.  Bytes are sequences of one-        *)
(* character strings.                                                       *)
(***************************************************************************)
HEADER_SIZE == 128

\* The values of the PacketType members.
PacketTypeValues == 1..9

\* Sizes 0..MaxSize are tried one by one, with a few longer ones.
MaxSize == 3

\* What a header may carry in its type and size fields: members and
\* non-members of PacketType, lengths of one to ten digits, and negatives.
TypeValues == 0..10

SizeValues == (-2..MaxSize) \cup {10, 128, 1024, 2147483647}

Digit(d) == CASE d = 0 -> "0" [] d = 1 -> "1" [] d = 2 -> "2" [] d = 3 -> "3"
              [] d = 4 -> "4" [] d = 5 -> "5" [] d = 6 -> "6" [] d = 7 -> "7"
              [] d = 8 -> "8" [] d = 9 -> "9"

DigitValue(c) == CASE c = "0" -> 0 [] c = "1" -> 1 [] c = "2" -> 2 [] c = "3" -> 3
                   [] c = "4" -> 4 [] c = "5" -> 5 [] c = "6" -> 6 [] c = "7" -> 7
                   [] c = "8" -> 8 [] c = "9" -> 9 [] OTHER -> -1

\* str(n) for n >= 0.
RECURSIVE StrNat(_)
StrNat(n) == IF n < 10 THEN <<Digit(n)>> ELSE StrNat(n \div 10) \o <<Digit(n % 10)>>

\* str(n) for an int n.
StrInt(n) == IF n < 0 THEN <<"-">> \o StrNat(-n) ELSE StrNat(n)

\* s.ljust(width): padded with spaces, never cut.
ljust(s, width) ==
    s \o [k \in 1..(IF Len(s) >= width THEN 0 ELSE width - Len(s)) |-> " "]

\* s.strip(), as int() applies it to its argument.
RECURSIVE lstrip(_)
lstrip(s) == IF Len(s) > 0 /\ s[1] = " " THEN lstrip(Tail(s)) ELSE s

RECURSIVE rstrip(_)
rstrip(s) ==
    IF Len(s) > 0 /\ s[Len(s)] = " " THEN rstrip(SubSeq(s, 1, Len(s) - 1)) ELSE s

RECURSIVE NatValue(_)
NatValue(s) ==
    IF Len(s) = 0 THEN 0
    ELSE 10 * NatValue(SubSeq(s, 1, Len(s) - 1)) + DigitValue(s[Len(s)])

ValueError == [raised |-> "ValueError"]

\* int(s): [value |-> n], or ValueError when s is no decimal literal.
int(s) ==
    LET body   == rstrip(lstrip(s))
        signed == Len(body) > 0 /\ body[1] \in {"-", "+"}
        digits == IF signed THEN Tail(body) ELSE body
    IN  IF Len(digits) = 0 \/ \E k \in 1..Len(digits) : DigitValue(digits[k]) < 0
        THEN ValueError
        ELSE [value |-> IF signed /\ body[1] = "-"
                        THEN 0 - NatValue(digits) ELSE NatValue(digits)]

\* The type field written without its padding to four characters.
to_bytes_unpadded(type, size) ==
    ljust(StrInt(type) \o ljust(StrInt(size), 16), HEADER_SIZE)

\* HeaderPacket.to_bytes, for the header of type value `type`.
to_bytes(type, size) ==
    ljust(ljust(StrInt(type), 4) \o ljust(StrInt(size), 16), HEADER_SIZE)

\* HeaderPacket.decode: the dict it returns, or the exception it raises.
decode(bytes) ==
    LET type == int(SubSeq(bytes, 1, IF Len(bytes) < 4 THEN Len(bytes) ELSE 4))
        size == int(SubSeq(bytes, 5, Len(bytes)))
    IN  IF "raised" \in DOMAIN type \/ type.value \notin PacketTypeValues
        THEN ValueError
        ELSE IF "raised" \in DOMAIN size
        THEN ValueError
        ELSE [type |-> type.value, size |-> size.value]

PACKET_SIZE == 1024

\* n spaces.
RECURSIVE Spaces(_)
Spaces(n) ==
    IF n <= 0 THEN ""
    ELSE LET half == Spaces(n \div 2)
         IN  half \o half \o (IF n % 2 = 1 THEN " " ELSE "")

\* s.ljust(width) for a str or bytes kept as a string.
ljust_str(s, width) == s \o Spaces(width - Len(s))

\* The parameter fields Packet.to_bytes puts before the content: each
\* dataclass field other than type and content, as <value> or as nothing,
\* padded to PACKET_SIZE.
RECURSIVE ParamBytes(_)
ParamBytes(params) ==
    IF params = <<>> THEN ""
    ELSE (IF Head(params) # None
          THEN ljust_str("<" \o Head(params) \o ">", PACKET_SIZE)
          ELSE ljust_str("", PACKET_SIZE)) \o ParamBytes(Tail(params))

\* The header of the frame declaring the content alone.
Packet_to_bytes_content(type, params, content) ==
    LET bytes == ParamBytes(params)
                 \o (IF Truthy(content) THEN content ELSE "")
    IN  [header |-> to_bytes(type, IF Truthy(content) THEN Len(content) ELSE 0),
         body |-> bytes]

\* Packet.to_bytes: the header, and the bytes that follow it.
Packet_to_bytes(type, params, content) ==
    LET bytes == ParamBytes(params)
                 \o (IF Truthy(content) THEN content ELSE "")
    IN  [header |-> to_bytes(type, Len(bytes)), body |-> bytes]

\* DownloadPacket.to_bytes
DownloadPacket_to_bytes(type, filename, bytes) ==
    LET body == ljust_str("<" \o Str(filename) \o ">", PACKET_SIZE) \o bytes
    IN  [header |-> to_bytes(type, Len(body)), body |-> body]

\* The subclasses of Packet: the value of their type and the number of
\* parameter fields they add.
PacketClasses ==
    {[type |-> 1, params |-> 0], [type |-> 2, params |-> 1],
     [type |-> 3, params |-> 1], [type |-> 4, params |-> 0],
     [type |-> 5, params |-> 0], [type |-> 6, params |-> 0],
     [type |-> 7, params |-> 0], [type |-> 9, params |-> 0]}

Contents == Messages \cup {"", None}

CodecIdle == [stage |-> "idle", type |-> 0, size |-> 0, bytes |-> <<>>,
              result |-> <<>>, params |-> <<>>, content |-> None, body |-> ""]

\* The files of the server's download directory (self.files_path), by name,
\* with their bytes.
Files == [f \in {"a.txt", "b.txt"} |-> IF f = "a.txt" THEN "abc" ELSE ""]

\* The filename parameter of a DOWNLOAD_REQUEST header.
Filenames == {"a.txt", "b.txt", "nope.txt", None}

\* os.scandir(self.files_path) yields the entries in any order.
Listings == {<<"a.txt", "b.txt">>, <<"b.txt", "a.txt">>}

\* encode_header(type, size, filename=filename)
encode_header_filename(type, size, filename) ==
    [type |-> type, size |-> size, filename |-> filename]

\* "".join(f'|-- {e.name}\n' for e in entries)
RECURSIVE JoinEntries(_)
JoinEntries(entries) ==
    IF Len(entries) = 0 THEN ""
    ELSE "|-- " \o entries[1] \o "\n" \o JoinEntries(Tail(entries))

process_file_list_request(conns, i, entries) ==
    LET message == "download\n" \o JoinEntries(entries)
        header  == encode_header("FILE_LIST", Len(message), None)
        out     == sendall(conns[i].socket, Frame(header, message))
    IN  [connections |-> conns, sent |-> out.sent, raised |-> out.raised,
         errors |-> <<>>]

\* The file sent with unicast(data, conn.username) where
\* process_download_request has conn.socket.sendall(data).
process_download_request_unicast(conns, i, filename) ==
    LET name == Str(filename)
    IN  IF name \notin DOMAIN Files
        THEN [connections |-> conns, sent |-> <<>>, raised |-> FALSE,
              errors |-> <<"File not found: download/" \o name>>]
        ELSE LET file   == Files[name]
                 header == encode_header_filename("DOWNLOAD", Len(file), filename)
                 out    == unicast(conns, Frame(header, file), conns[i].username)
             IN  [connections |-> conns, sent |-> out.sent,
                  raised |-> out.raised, errors |-> <<>>]

process_download_request(conns, i, filename) ==
    LET name == Str(filename)
    IN  IF name \notin DOMAIN Files
        THEN [connections |-> conns, sent |-> <<>>, raised |-> FALSE,
              errors |-> <<"File not found: download/" \o name>>]
        ELSE LET file   == Files[name]
                 header == encode_header_filename("DOWNLOAD", Len(file), filename)
                 out    == sendall(conns[i].socket, Frame(header, file))
             IN  [connections |-> conns, sent |-> out.sent,
                  raised |-> out.raised, errors |-> <<>>]

Event(op, socket, username, recipient, message, filename) ==
    [op |-> op, socket |-> socket, username |-> username,
     recipient |-> recipient, message |-> message, filename |-> filename,
     before |-> connections, released |-> departed, unwritable |-> broken]

\* The process once run_server has bound the port and entered listen.
Serving == [phase |-> "listen", bound |-> TRUE, listener |-> "open",
            critical |-> FALSE]

\* The process when Server.start has just started the run_server thread.
Created == [phase |-> "created", bound |-> FALSE, listener |-> "none",
            critical |-> FALSE]

\* The client before Client.start.
ClientIdle == [pc |-> "idle"]

\* A socket with no unread bytes.
Drained == [state |-> "drained", message |-> "", taken |-> 0, arrived |-> 0]

\* The payloads the clients of SpecNet write.
NetMessages == {"hi"}

\* The characters of a payload.
Chars(message) ==
    CASE message = "hello" -> <<"h", "e", "l", "l", "o">>
      [] message = "hi"    -> <<"h", "i">>
      [] OTHER             -> <<>>

RECURSIVE Concat(_)
Concat(chars) == IF chars = <<>> THEN "" ELSE Head(chars) \o Concat(Tail(chars))

\* socket.recv(expected_size).decode() when `available` bytes of the payload
\* have arrived: recv returns what is there, at most expected_size bytes.
recv_payload(message, expected_size, available) ==
    Concat(SubSeq(Chars(message), 1,
                  IF available < expected_size THEN available ELSE expected_size))

\* The sockets SpecFault lets break over one run.
MaxBroken == 1

\* The headers a client can send that are no header of the protocol: an
\* unknown type, a negative length.
MalformedHeaders ==
    {[type |-> "BOGUS", size |-> 0], [type |-> "OUT_MESSAGE", size |-> -1]}

ProtocolError == [raised |-> "ProtocolError"]

\* util.decode_header: the header, or the error for a malformed one.
decode_header(header) ==
    IF header.size < 0 \/ header.type \notin {"USERNAME", "OUT_MESSAGE",
                                              "FILE_LIST_REQUEST",
                                              "DOWNLOAD_REQUEST"}
    THEN ProtocolError
    ELSE header

Init ==
    /\ connections = <<>>
    /\ accepted = 0
    /\ closed = {}
    /\ running = TRUE
    /\ departed = {}
    /\ broken = {}
    /\ inbuf = [s \in Sockets |-> Drained]
    /\ blocked = 0
    /\ proc = Serving
    /\ client = ClientIdle
    /\ last = Event("start", 0, None, None, "", None)
    /\ sent = <<>>
    /\ errors = <<>>
    /\ codec = CodecIdle

\* Server.listen, sock is self.socket: accept and register a connection.
Accept ==
    /\ running
    /\ accepted < MaxSock
    /\ accepted' = accepted + 1
    /\ connections' = Append(connections, ClientConnection(accepted + 1))
    /\ last' = Event("accept", accepted + 1, None, None, "", None)
    /\ sent' = <<>>
    /\ errors' = <<>>
    /\ UNCHANGED <<closed, running, departed>>
    /\ UNCHANGED aux

\* process_socket, `if not data`: the client end has closed and the read
\* returned zero bytes.
RecvNothing(socket) ==
    /\ running
    /\ LET i == get_conn_by_socket(connections, socket)
       IN  /\ i # 0
           /\ LET r == close_conn(connections, i)
              IN  /\ connections' = r.connections
                  /\ sent' = r.sent
                  /\ running' = ~r.raised
                  /\ closed' = closed \cup r.closed
                  /\ last' = Event("close", socket, connections[i].username,
                                   None, "", None)
                  /\ departed' =
                         {u \in departed \cup {connections[i].username} :
                              Truthy(u) /\ u \notin Range(get_connected_users(r.connections))}
    /\ errors' = <<>>
    /\ UNCHANGED accepted
    /\ UNCHANGED aux

\* process_socket, a USERNAME packet whose header carries username (or none).
RecvUsername(socket, username) ==
    /\ running
    /\ LET i == get_conn_by_socket(connections, socket)
       IN  /\ i # 0
           /\ LET r == process_username_packet(connections, i, username)
              IN  /\ connections' = r.connections
                  /\ sent' = r.sent
                  /\ running' = ~r.raised
                  /\ last' = Event("username", socket, username, None, "", None)
                  /\ departed' = departed \ Range(get_connected_users(r.connections))
    /\ errors' = <<>>
    /\ UNCHANGED <<accepted, closed>>
    /\ UNCHANGED aux

\* process_socket, an OUT_MESSAGE packet with payload message.
RecvMessage(socket, recipient, message) ==
    /\ running
    /\ LET i == get_conn_by_socket(connections, socket)
       IN  /\ i # 0
           /\ LET r == process_message_packet(connections, i, recipient, message)
              IN  /\ connections' = r.connections
                  /\ sent' = r.sent
                  /\ running' = ~r.raised
                  /\ last' = Event("message", socket, None, recipient, message, None)
    /\ errors' = <<>>
    /\ UNCHANGED <<accepted, closed, departed>>
    /\ UNCHANGED aux

\* process_socket, a FILE_LIST_REQUEST packet; entries is what os.scandir
\* yields.
RecvFileListRequest(socket, entries) ==
    /\ running
    /\ LET i == get_conn_by_socket(connections, socket)
       IN  /\ i # 0
           /\ LET r == process_file_list_request(connections, i, entries)
              IN  /\ connections' = r.connections
                  /\ sent' = r.sent
                  /\ running' = ~r.raised
                  /\ errors' = r.errors
                  /\ last' = Event("file_list", socket, None, None, "", None)
    /\ UNCHANGED <<accepted, closed, departed>>
    /\ UNCHANGED aux

\* process_socket, a DOWNLOAD_REQUEST packet whose header carries filename.
RecvDownloadRequest(socket, filename) ==
    /\ running
    /\ LET i == get_conn_by_socket(connections, socket)
       IN  /\ i # 0
           /\ LET r == process_download_request(connections, i, filename)
              IN  /\ connections' = r.connections
                  /\ sent' = r.sent
                  /\ running' = ~r.raised
                  /\ errors' = r.errors
                  /\ last' = Event("download", socket, None, None, "", filename)
    /\ UNCHANGED <<accepted, closed, departed>>
    /\ UNCHANGED aux

Next ==
    \/ Accept
    \/ \E s \in Sockets : RecvNothing(s)
    \/ \E s \in Sockets, u \in ParamValues : RecvUsername(s, u)
    \/ \E s \in Sockets, r \in ParamValues, m \in Messages : RecvMessage(s, r, m)
    \/ \E s \in Sockets, e \in Listings : RecvFileListRequest(s, e)
    \/ \E s \in Sockets, f \in Filenames : RecvDownloadRequest(s, f)

Spec == Init /\ [][Next]_vars

(***************************************************************************)
(* The server with the faults its sockets can show: a peer that is gone,   *)
(* so that sendall on its socket raises; a header that is no header; a     *)
(* recv that raises.  None of listen, process_socket, broadcast and        *)
(* close_conn has an except clause, so an exception ends run_server and    *)
(* with it the thread of the event loop.                                   *)
(***************************************************************************)
\* The peer of socket goes away: sendall on it raises from now on.
PeerGone(socket) ==
    /\ running
    /\ get_conn_by_socket(connections, socket) # 0
    /\ socket \notin broken
    /\ Cardinality(broken) < MaxBroken
    /\ broken' = broken \cup {socket}
    /\ UNCHANGED <<connections, accepted, closed, running, last, sent,
                   departed, errors, codec, inbuf, blocked,
                   proc, client>>

\* process_socket, a header decode_header raises on: the exception leaves
\* process_socket and listen.
RecvMalformed(socket, header) ==
    /\ running
    /\ get_conn_by_socket(connections, socket) # 0
    /\ "raised" \in DOMAIN decode_header(header)
    /\ running' = FALSE
    /\ sent' = <<>>
    /\ errors' = <<>>
    /\ last' = Event("malformed", socket, None, None, "", None)
    /\ UNCHANGED <<connections, accepted, closed, departed>>
    /\ UNCHANGED aux

\* process_socket, socket.recv(HEADER_SIZE) raises ConnectionResetError: the
\* exception leaves process_socket and listen.
RecvReset(socket) ==
    /\ running
    /\ get_conn_by_socket(connections, socket) # 0
    /\ running' = FALSE
    /\ sent' = <<>>
    /\ errors' = <<>>
    /\ last' = Event("reset", socket, None, None, "", None)
    /\ UNCHANGED <<connections, accepted, closed, departed>>
    /\ UNCHANGED aux

FaultNext ==
    \/ Next
    \/ \E s \in Sockets : PeerGone(s)
    \/ \E s \in Sockets, h \in MalformedHeaders : RecvMalformed(s, h)
    \/ \E s \in Sockets : RecvReset(s)

SpecFault == Init /\ [][FaultNext]_vars

(***************************************************************************)
(* The server with clients whose USERNAME packets always carry a name: a   *)
(* username, once set, is only ever replaced by another name, so a         *)
(* connection whose username is None has never been Identified.            *)
(***************************************************************************)
NamedNext ==
    \/ Accept
    \/ \E s \in Sockets : RecvNothing(s)
    \/ \E s \in Sockets, u \in Names : RecvUsername(s, u)
    \/ \E s \in Sockets, r \in ParamValues, m \in Messages : RecvMessage(s, r, m)

SpecNamed == Init /\ [][NamedNext]_vars

(***************************************************************************)
(* One client of src/src2/client.py and the server it talks to.  The       *)
(* client's main thread runs send_username and then handle_cli_input; its  *)
(* daemon thread runs handle_server_response.  The two share               *)
(* new_username_requested without a lock, so every statement of one may    *)
(* run between two statements of the other.  The server has accepted two   *)
(* connections: socket 1 is Identified as alice and stays silent, socket   *)
(* ClientSocket is the client.                                             *)
(***************************************************************************)
ClientSocket == 2

\* The username claims one client sends over a run.
MaxClaims == 2

\* The input lines one client handles over a run.
MaxLines == 3

\* The non-empty lines typed at the client's console.
Lines == Names \cup {"hello"}

\* Client.__init__ and Client.start up to the call of send_username.
ClientStart(username) ==
    [pc |-> "sendall", username |-> username, flag |-> FALSE,
     outbox |-> <<>>, inbox |-> <<>>, claims |-> 0, answered |-> 0,
     rejected |-> 0, lines |-> 0, line |-> [as |-> "none", due |-> FALSE]]

ClientInit ==
    /\ connections = <<[socket |-> 1, username |-> "alice"],
                       ClientConnection(ClientSocket)>>
    /\ accepted = ClientSocket
    /\ closed = {}
    /\ running = TRUE
    /\ departed = {}
    /\ broken = {}
    /\ inbuf = [s \in Sockets |-> Drained]
    /\ blocked = 0
    /\ last = Event("accept", ClientSocket, None, None, "", None)
    /\ sent = <<>>
    /\ errors = <<>>
    /\ codec = CodecIdle
    /\ proc = Serving
    /\ \E u \in Names : client = ClientStart(u)

\* send_username, line 43-44: the claim of self.username is sent.
SendUsername ==
    /\ client.pc = "sendall"
    /\ client.claims < MaxClaims
    /\ client' = [client EXCEPT
                      !.pc = "reset",
                      !.claims = @ + 1,
                      !.outbox = Append(@, [type |-> "USERNAME",
                                            text |-> client.username])]
    /\ UNCHANGED outside

\* send_username, line 45: self.new_username_requested = False.
ResetFlag ==
    /\ client.pc = "reset"
    /\ client' = [client EXCEPT !.pc = "input", !.flag = FALSE]
    /\ UNCHANGED outside

\* handle_cli_input, one non-empty line: a new claim when
\* new_username_requested is set, a message to everyone otherwise.
HandleLine(user_input) ==
    /\ client.pc = "input"
    /\ client.lines < MaxLines
    /\ IF client.flag
       THEN client' = [client EXCEPT
                          !.pc = "sendall",
                          !.username = user_input,
                          !.lines = @ + 1,
                          !.line = [as |-> "username", due |-> TRUE]]
       ELSE client' = [client EXCEPT
                          !.lines = @ + 1,
                          !.outbox = Append(@, [type |-> "OUT_MESSAGE",
                                                text |-> user_input]),
                          !.line = [as  |-> "message",
                                    due |-> /\ client.claims > 0
                                            /\ client.rejected = client.claims]]
    /\ UNCHANGED outside

\* handle_server_response, one frame: process_duplicate_username sets the
\* flag, process_announcement prints.
ProcessReply ==
    /\ client.inbox # <<>>
    /\ client' = [client EXCEPT
                      !.inbox = Tail(@),
                      !.answered = @ + 1,
                      !.rejected = IF Head(client.inbox) = "DUPLICATE_USERNAME"
                                   THEN client.answered + 1 ELSE @,
                      !.flag = IF Head(client.inbox) = "DUPLICATE_USERNAME"
                               THEN TRUE ELSE @]
    /\ UNCHANGED outside

\* Server.process_socket on the client's socket: the oldest packet the
\* client sent is handled, and the frames sent to the client reach it.
ServerAnswers ==
    /\ running
    /\ client.outbox # <<>>
    /\ LET packet == Head(client.outbox)
           i      == get_conn_by_socket(connections, ClientSocket)
           r      == IF packet.type = "USERNAME"
                     THEN process_username_packet(connections, i, packet.text)
                     ELSE process_message_packet(connections, i, None,
                                                 packet.text)
           back   == SelectSeq(r.sent, LAMBDA m : m.to = ClientSocket)
       IN  /\ connections' = r.connections
           /\ sent' = r.sent
           /\ running' = ~r.raised
           /\ last' = IF packet.type = "USERNAME"
                      THEN Event("username", ClientSocket, packet.text, None,
                                 "", None)
                      ELSE Event("message", ClientSocket, None, None,
                                 packet.text, None)
           /\ client' = [client EXCEPT
                             !.outbox = Tail(@),
                             !.inbox = @ \o [k \in 1..Len(back) |->
                                                back[k].data.header.type]]
    /\ errors' = <<>>
    /\ UNCHANGED <<accepted, closed, departed, codec, broken, inbuf, blocked,
                   proc>>

ClientNext ==
    \/ SendUsername
    \/ ResetFlag
    \/ \E line \in Lines : HandleLine(line)
    \/ ProcessReply
    \/ ServerAnswers

SpecClient == ClientInit /\ [][ClientNext]_vars

(***************************************************************************)
(* The life of the process: Server.start starts the run_server thread and  *)
(* reads the console in handle_cli_input; run_server binds the port and    *)
(* calls listen; a keyboard interrupt at the console calls Server.close.   *)
(***************************************************************************)
LifeInit ==
    /\ connections = <<>>
    /\ accepted = 0
    /\ closed = {}
    /\ running = TRUE
    /\ departed = {}
    /\ broken = {}
    /\ inbuf = [s \in Sockets |-> Drained]
    /\ blocked = 0
    /\ last = Event("start", 0, None, None, "", None)
    /\ sent = <<>>
    /\ errors = <<>>
    /\ codec = CodecIdle
    /\ client = ClientIdle
    /\ proc = Created

\* Server.run_server: the try block succeeds (ok) or raises, the except
\* clause logs the failure, and in both cases self.listen() is called.
RunServer(ok) ==
    /\ running
    /\ proc.phase = "created"
    /\ proc' = [phase    |-> "listen",
                bound    |-> ok,
                listener |-> IF ok THEN "open" ELSE "unbound",
                critical |-> ~ok]
    /\ UNCHANGED <<connections, accepted, closed, running, last, sent,
                   departed, errors, codec, broken, inbuf, blocked, client>>

\* Server.listen on a socket that is not listening: select or accept on it
\* raises, and the exception ends the run_server thread.
ListenUnbound ==
    /\ running
    /\ proc.phase = "listen"
    /\ ~proc.bound
    /\ running' = FALSE
    /\ UNCHANGED <<connections, accepted, closed, last, sent, departed,
                   errors, codec, broken, inbuf, blocked, proc, client>>

\* handle_cli_input, KeyboardInterrupt: Server.close logs and calls
\* sys.exit(0); the daemon thread of the event loop ends with the process.
Shutdown ==
    /\ proc.phase # "exited"
    /\ proc' = [proc EXCEPT !.phase = "exited"]
    /\ running' = FALSE
    /\ UNCHANGED <<connections, accepted, closed, last, sent, departed,
                   errors, codec, broken, inbuf, blocked, client>>

LifeNext ==
    \/ \E ok \in BOOLEAN : RunServer(ok)
    \/ ListenUnbound
    \/ Shutdown
    \/ proc.phase = "listen" /\ proc.bound /\ Next

SpecLife == LifeInit /\ [][LifeNext]_vars

(***************************************************************************)
(* The server reading bytes.  A client writes the header and the payload   *)
(* of an OUT_MESSAGE frame with no recipient; the header reaches the       *)
(* server whole and the payload byte by byte.  select reports a socket     *)
(* readable as soon as it holds unread bytes, and process_socket then      *)
(* calls recv(HEADER_SIZE) once and recv(expected_size) once.              *)
(***************************************************************************)
\* A client writes a frame: its header arrives.
ClientSends(socket, message) ==
    /\ get_conn_by_socket(connections, socket) # 0
    /\ inbuf[socket].state = "drained"
    /\ inbuf' = [inbuf EXCEPT ![socket] =
                     [state |-> "frame", message |-> message, taken |-> 0,
                      arrived |-> 0]]
    /\ UNCHANGED <<connections, accepted, closed, running, last, sent,
                   departed, errors, codec, broken, blocked,
                   proc, client>>

\* One more byte of the payload arrives.
Deliver(socket) ==
    /\ inbuf[socket].state \in {"frame", "tail"}
    /\ inbuf[socket].arrived < Len(inbuf[socket].message)
    /\ inbuf' = [inbuf EXCEPT ![socket].arrived = @ + 1]
    /\ UNCHANGED <<connections, accepted, closed, running, last, sent,
                   departed, errors, codec, broken, blocked,
                   proc, client>>

\* process_socket from `message = socket.recv(expected_size).decode()` on,
\* for an OUT_MESSAGE header without recipient: what recv returned is the
\* message.
Dispatch(socket) ==
    LET i    == get_conn_by_socket(connections, socket)
        buf  == inbuf[socket]
        text == recv_payload(buf.message, Len(buf.message), buf.arrived)
        r    == process_message_packet(connections, i, None, text)
    IN  /\ connections' = r.connections
        /\ sent' = r.sent
        /\ running' = ~r.raised
        /\ errors' = <<>>
        /\ last' = Event("message", socket, None, None, text, None)
        /\ inbuf' = [inbuf EXCEPT ![socket] =
                         IF Len(text) = Len(buf.message) THEN Drained
                         ELSE [buf EXCEPT !.state = "tail",
                                          !.taken = Len(text)]]
        /\ blocked' = 0
        /\ UNCHANGED <<accepted, closed, departed, codec, broken, proc, client>>

\* process_socket on a socket whose unread bytes start with a header:
\* recv(HEADER_SIZE) returns the header, and recv(expected_size) returns
\* the payload bytes that are there or, when none is, does not return.
ReadFrame(socket) ==
    /\ running
    /\ blocked = 0
    /\ get_conn_by_socket(connections, socket) # 0
    /\ inbuf[socket].state = "frame"
    /\ IF inbuf[socket].arrived = 0
       THEN /\ blocked' = socket
            /\ UNCHANGED <<connections, accepted, closed, running, last, sent,
                           departed, errors, codec, broken, inbuf,
                   proc, client>>
       ELSE Dispatch(socket)

\* The recv(expected_size) the loop waits in returns: bytes have arrived.
RecvReturns(socket) ==
    /\ running
    /\ blocked = socket
    /\ inbuf[socket].arrived > 0
    /\ Dispatch(socket)

\* process_socket on a socket whose unread bytes are the rest of a payload:
\* recv(HEADER_SIZE) returns them and decode_header raises.
ReadTail(socket) ==
    /\ running
    /\ blocked = 0
    /\ get_conn_by_socket(connections, socket) # 0
    /\ inbuf[socket].state = "tail"
    /\ inbuf[socket].arrived > inbuf[socket].taken
    /\ running' = FALSE
    /\ sent' = <<>>
    /\ errors' = <<>>
    /\ last' = Event("malformed", socket, None, None, "", None)
    /\ inbuf' = [inbuf EXCEPT ![socket] = Drained]
    /\ UNCHANGED <<connections, accepted, closed, departed, codec, broken,
                   blocked, proc, client>>

NetNext ==
    \/ blocked = 0 /\ Accept
    \/ \E s \in Sockets, u \in Names : blocked = 0 /\ RecvUsername(s, u)
    \/ \E s \in Sockets, m \in NetMessages : ClientSends(s, m)
    \/ \E s \in Sockets : Deliver(s)
    \/ \E s \in Sockets : ReadFrame(s)
    \/ \E s \in Sockets : RecvReturns(s)
    \/ \E s \in Sockets : ReadTail(s)

SpecNet == Init /\ [][NetNext]_vars

(***************************************************************************)
(* The codec on its own: a header is chosen, written by to_bytes (or, when *)
(* its type is no PacketType member, by a client writing the same layout by *)
(* hand), and read back by decode.                                         *)
(***************************************************************************)
CodecInit ==
    /\ connections = <<>>
    /\ accepted = 0
    /\ closed = {}
    /\ running = TRUE
    /\ departed = {}
    /\ broken = {}
    /\ inbuf = [s \in Sockets |-> Drained]
    /\ blocked = 0
    /\ proc = Serving
    /\ client = ClientIdle
    /\ last = Event("start", 0, None, None, "", None)
    /\ sent = <<>>
    /\ errors = <<>>
    /\ \E t \in TypeValues, n \in SizeValues :
           codec = [CodecIdle EXCEPT !.stage = "chosen", !.type = t, !.size = n]

\* HeaderPacket(type, size).to_bytes()
HeaderToBytes ==
    /\ codec.stage = "chosen"
    /\ codec.type \in PacketTypeValues
    /\ codec' = [codec EXCEPT !.stage = "written",
                              !.bytes = to_bytes(codec.type, codec.size)]
    /\ UNCHANGED server

\* A client writes a header whose type field names no PacketType member.
ForgeHeader ==
    /\ codec.stage = "chosen"
    /\ codec.type \notin PacketTypeValues
    /\ codec' = [codec EXCEPT !.stage = "written",
                              !.bytes = ljust(ljust(StrInt(codec.type), 4)
                                              \o ljust(StrInt(codec.size), 16),
                                              HEADER_SIZE)]
    /\ UNCHANGED server

\* HeaderPacket.decode(bytes)
HeaderDecode ==
    /\ codec.stage = "written"
    /\ codec' = [codec EXCEPT !.stage = "read", !.result = decode(codec.bytes)]
    /\ UNCHANGED server

CodecNext == HeaderToBytes \/ ForgeHeader \/ HeaderDecode

SpecCodec == CodecInit /\ [][CodecNext]_vars

(***************************************************************************)
(* Every way a frame is built: by the server's handlers, and by the packet  *)
(* classes of src/src/packet.py from a packet chosen at the start.          *)
(***************************************************************************)
PacketInit ==
    /\ connections = <<>>
    /\ accepted = 0
    /\ closed = {}
    /\ running = TRUE
    /\ departed = {}
    /\ broken = {}
    /\ inbuf = [s \in Sockets |-> Drained]
    /\ blocked = 0
    /\ proc = Serving
    /\ client = ClientIdle
    /\ last = Event("start", 0, None, None, "", None)
    /\ sent = <<>>
    /\ errors = <<>>
    /\ \/ \E c \in PacketClasses, content \in Contents :
              \E params \in [1..c.params -> Names \cup {None}] :
                  codec = [CodecIdle EXCEPT !.stage = "packet", !.type = c.type,
                                            !.params = params,
                                            !.content = content]
       \/ \E filename \in Filenames, f \in DOMAIN Files :
              codec = [CodecIdle EXCEPT !.stage = "download", !.type = 8,
                                        !.params = <<filename>>,
                                        !.content = Files[f]]

\* Packet.to_bytes()
PacketToBytes ==
    /\ codec.stage = "packet"
    /\ LET frame == Packet_to_bytes(codec.type, codec.params, codec.content)
       IN  codec' = [codec EXCEPT !.stage = "framed", !.bytes = frame.header,
                                  !.body = frame.body]
    /\ UNCHANGED server

\* DownloadPacket.to_bytes()
DownloadToBytes ==
    /\ codec.stage = "download"
    /\ LET frame == DownloadPacket_to_bytes(codec.type, codec.params[1],
                                            codec.content)
       IN  codec' = [codec EXCEPT !.stage = "framed", !.bytes = frame.header,
                                  !.body = frame.body]
    /\ UNCHANGED server

FramesNext ==
    \/ codec = CodecIdle /\ Next
    \/ PacketToBytes
    \/ DownloadToBytes

SpecFrames == (Init \/ PacketInit) /\ [][FramesNext]_vars

(***************************************************************************)
(* Vocabulary of the properties.                                           *)
(***************************************************************************)

\* A connection is Identified when it holds a username the server counts as
\* set: one that get_connected_users lists.
Identified(c) == Truthy(c.username)

\* The registry the last step started from, and the connection it was about.
Before == last.before

Subject == Before[get_conn_by_socket(Before, last.socket)]

Registered(conns, socket) == get_conn_by_socket(conns, socket) # 0

Held(conns, username) ==
    \E i \in 1..Len(conns) :
        Identified(conns[i]) /\ conns[i].username = username

\* The frames the last step sent to a socket, in order.
FramesTo(socket) ==
    LET to == SelectSeq(sent, LAMBDA m : m.to = socket)
    IN  [k \in 1..Len(to) |-> to[k].data]

Announcement(text) ==
    Frame(encode_header("ANNOUNCEMENT", Len(text), None), text)

JoinFrame(username) == Announcement(username \o " has joined")

WelcomeFrame(username) ==
    Announcement("Welcome to the server, " \o username \o "!")

LeftFrame(username) == Announcement(username \o " has left")

\* The last step was a USERNAME packet naming a username some registered
\* connection held.
CollidingClaim ==
    /\ last.op = "username"
    /\ Held(Before, last.username)

\* The last step was a USERNAME packet whose name was free and made the
\* claiming connection Identified.
AcceptedClaim ==
    /\ last.op = "username"
    /\ Truthy(last.username)
    /\ ~Held(Before, last.username)

C2_IdentifiedNameFixed ==
    (last.op = "username" /\ Identified(Subject))
        => connections[get_conn_by_socket(connections, last.socket)].username
               = Subject.username

(***************************************************************************)
(* C3.  A USERNAME packet naming a held username is rejected with the      *)
(* registry unchanged: the claimant keeps the username it had, stays in    *)
(* Server.connections with its socket open, and no other record changes.   *)
(***************************************************************************)
C3_CollisionLeavesRegistry ==
    CollidingClaim
        => /\ connections = Before
           /\ Registered(connections, last.socket)
           /\ last.socket \notin closed

\* An Unidentified connection has just claimed a name another one holds.
C3_Witness ==
    /\ CollidingClaim
    /\ Subject.username = None
    /\ Len(connections) >= 2

(***************************************************************************)
(* C4.  On a colliding USERNAME claim the server sends exactly one frame:  *)
(* a DUPLICATE_USERNAME frame to the claimant, whose payload lists exactly *)
(* the usernames of the connections Identified at that moment; it sends no *)
(* ANNOUNCEMENT frame to anyone.                                           *)
(***************************************************************************)
IdentifiedNames(conns) ==
    LET ident == SelectSeq(conns, Identified)
    IN  [k \in 1..Len(ident) |-> ident[k].username]

C4_CollisionReply ==
    CollidingClaim
        => /\ Len(sent) = 1
           /\ sent[1].to = last.socket
           /\ sent[1].data.header.type = "DUPLICATE_USERNAME"
           /\ sent[1].data.payload = JoinNames(IdentifiedNames(Before))
           /\ \A k \in 1..Len(sent) :
                  sent[k].data.header.type # "ANNOUNCEMENT"

\* The claim collided while two connections were Identified and the claimant
\* was not: the reply lists both names.
C4_Witness ==
    /\ CollidingClaim
    /\ ~Identified(Subject)
    /\ Len(IdentifiedNames(Before)) = 2
    /\ Len(sent) = 1

(***************************************************************************)
(* C5.  On an accepted USERNAME claim by connection c every other          *)
(* Identified connection receives exactly one join announcement, c         *)
(* receives none, and c and only c receives exactly one welcome, sent      *)
(* after the join broadcast.                                               *)
(***************************************************************************)
C5_AcceptedClaimAnnounced ==
    AcceptedClaim
        => /\ \A i \in 1..Len(connections) :
                  LET c == connections[i]
                  IN  IF c.socket = last.socket
                      THEN FramesTo(c.socket) = <<WelcomeFrame(last.username)>>
                      ELSE Identified(c)
                               => FramesTo(c.socket) = <<JoinFrame(last.username)>>
           /\ Len(sent) >= 1
           /\ sent[Len(sent)] = Send(last.socket, WelcomeFrame(last.username))
           /\ \A k \in 1..(Len(sent) - 1) :
                  sent[k].data = JoinFrame(last.username)

\* A claim was accepted while one other connection was Identified and one
\* was not: both got the join announcement, then the claimant its welcome.
C5_Witness ==
    /\ AcceptedClaim
    /\ Len(IdentifiedNames(Before)) = 1
    /\ ~Identified(Subject)
    /\ Len(connections) = 3
    /\ Len(sent) = 3

(***************************************************************************)
(* C6.  For every registry state and every username A,                     *)
(* broadcast(frame, exclude=[A]) sends the frame exactly once to every     *)
(* Identified connection whose username is not A and never to the          *)
(* connection whose username is A, in whatever order Server.connections    *)
(* holds the connections.                                                  *)
(***************************************************************************)
ProbeFrame == Announcement("probe")

Orders(conns) ==
    {[i \in 1..Len(conns) |-> conns[p[i]]] : p \in Permutations(1..Len(conns))}

SendsTo(out, socket) == Len(SelectSeq(out, LAMBDA m : m.to = socket))

C6_BroadcastExcludes ==
    \A A \in Names \cup {""} :
        \A order \in Orders(connections) :
            LET out == broadcast(order, ProbeFrame, {A}).sent
            IN  /\ \A k \in 1..Len(out) : out[k].data = ProbeFrame
                /\ \A i \in 1..Len(connections) :
                      LET c == connections[i]
                      IN  /\ (Identified(c) /\ c.username # A)
                              => SendsTo(out, c.socket) = 1
                          /\ c.username = A => SendsTo(out, c.socket) = 0

\* An Identified connection has just broadcast a message: the other
\* Identified connection and an Unidentified one got it, the sender did not.
C6_Witness ==
    /\ last.op = "message"
    /\ ~Truthy(last.recipient)
    /\ Identified(Subject)
    /\ Len(IdentifiedNames(connections)) = 2
    /\ Len(connections) = 3
    /\ FramesTo(last.socket) = <<>>
    /\ Len(sent) = 2

(***************************************************************************)
(* C7.  Server.broadcast sends only to Identified connections: a           *)
(* registered connection whose username is unset never receives a join     *)
(* announcement, a departure announcement or a relayed message.            *)
(***************************************************************************)
\* The sends of the last step that Server.broadcast made.
BroadcastSends ==
    IF last.op = "close" \/ (last.op = "message" /\ ~Truthy(last.recipient))
    THEN 1..Len(sent)
    ELSE IF last.op = "username" /\ ~Held(Before, last.username)
    THEN {k \in 1..Len(sent) :
              sent[k].data = JoinFrame(Str(last.username))}
    ELSE {}

C7_BroadcastOnlyIdentified ==
    \A k \in BroadcastSends :
        \A i \in 1..Len(connections) :
            connections[i].socket = sent[k].to => Identified(connections[i])

(***************************************************************************)
(* C8.  For an OUT_MESSAGE packet without recipient from Identified        *)
(* connection s, every other Identified connection receives exactly one    *)
(* IN_MESSAGE frame whose sender is s's username in the server's record    *)
(* and whose payload is the received message; s receives no frame.         *)
(***************************************************************************)
InMessage(sender, message) ==
    Frame(encode_header("IN_MESSAGE", Len(message), sender), message)

C8_UntargetedMessageRelayed ==
    (last.op = "message" /\ ~Truthy(last.recipient) /\ Identified(Subject))
        => /\ \A i \in 1..Len(connections) :
                  LET c == connections[i]
                  IN  IF c.socket = last.socket
                      THEN FramesTo(c.socket) = <<>>
                      ELSE Identified(c)
                               => FramesTo(c.socket)
                                      = <<InMessage(Subject.username, last.message)>>
           /\ \A k \in 1..Len(sent) :
                  sent[k].data = InMessage(Subject.username, last.message)

\* alice has just sent "hello" to everyone and bob, Identified, got it.
C8_Witness ==
    /\ last.op = "message"
    /\ last.recipient = None
    /\ last.message = "hello"
    /\ Subject.username = "alice"
    /\ \E i \in 1..Len(connections) :
           /\ connections[i].username = "bob"
           /\ FramesTo(connections[i].socket) = <<InMessage("alice", "hello")>>

(***************************************************************************)
(* C9.  For an OUT_MESSAGE packet with recipient r: if a connection holds  *)
(* r, that connection and no other receives the IN_MESSAGE frame; if none  *)
(* does, no frame is sent, the registry is unchanged and the event loop    *)
(* goes on to process later packets.                                       *)
(***************************************************************************)
C9_TargetedMessage ==
    (last.op = "message" /\ Truthy(last.recipient))
        => /\ connections = Before
           /\ running
           /\ \A i \in 1..Len(connections) :
                  ENABLED RecvMessage(connections[i].socket, None, "hello")
           /\ IF Held(Before, last.recipient)
              THEN /\ Len(sent) = 1
                   /\ \E i \in 1..Len(Before) :
                          /\ Before[i].username = last.recipient
                          /\ sent[1] = Send(Before[i].socket,
                                            InMessage(Subject.username, last.message))
              ELSE sent = <<>>

\* A message was addressed to a name nobody holds while others were connected,
\* and the loop is still serving them.
C9_WitnessAbsent ==
    /\ last.op = "message"
    /\ Truthy(last.recipient)
    /\ ~Held(Before, last.recipient)
    /\ Len(connections) >= 2
    /\ sent = <<>>
    /\ running

(***************************************************************************)
(* C10.  When a read on Identified connection c returns zero bytes the     *)
(* server closes c's socket, removes c from Server.connections and sends   *)
(* exactly one departure announcement to every other Identified            *)
(* connection and none to c.                                               *)
(***************************************************************************)
C10_DepartureAnnounced ==
    (last.op = "close" /\ Identified(Subject))
        => /\ last.socket \in closed
           /\ ~Registered(connections, last.socket)
           /\ Len(connections) = Len(Before) - 1
           /\ FramesTo(last.socket) = <<>>
           /\ \A i \in 1..Len(connections) :
                  Identified(connections[i])
                      => FramesTo(connections[i].socket)
                             = <<LeftFrame(Subject.username)>>

\* An Identified connection has left while another was Identified and a
\* third was not: both were told.
C10_Witness ==
    /\ last.op = "close"
    /\ Identified(Subject)
    /\ Len(IdentifiedNames(connections)) = 1
    /\ Len(connections) = 2
    /\ Len(sent) = 2

(***************************************************************************)
(* C11.  A username is released on disconnect: once the connection holding *)
(* u has been closed by the loop, u is held by nobody, and a USERNAME      *)
(* claim for u by an Unidentified connection is accepted as long as nobody *)
(* claimed u in between.                                                   *)
(***************************************************************************)
C11_ReleasedOnDisconnect ==
    /\ \A u \in departed : ~Held(connections, u)
    /\ (last.op = "close" /\ Identified(Subject))
           => Subject.username \in departed
    /\ (last.op = "username" /\ last.username \in last.released
            /\ ~Identified(Subject))
           => /\ connections[get_conn_by_socket(connections, last.socket)].username
                     = last.username
              /\ FramesTo(last.socket) = <<WelcomeFrame(last.username)>>

\* A new connection has just claimed, and got, the name of a connection that
\* disconnected, while another connection stayed Identified throughout.
C11_Witness ==
    /\ last.op = "username"
    /\ last.username \in last.released
    /\ ~Identified(Subject)
    /\ closed # {}
    /\ Len(IdentifiedNames(connections)) = 2
    /\ connections[get_conn_by_socket(connections, last.socket)].username
           = last.username

(***************************************************************************)
(* C12.  For a DOWNLOAD_REQUEST from connection c: if the named file       *)
(* exists, c and only c receives one DOWNLOAD frame whose payload is the   *)
(* file's content and whose declared length is the file's size; if it does *)
(* not exist, no frame is sent to anyone, a not-found error is logged, the *)
(* registry is unchanged and the loop goes on.                             *)
(***************************************************************************)
C12_Download ==
    last.op = "download"
        => /\ connections = Before
           /\ running
           /\ \A i \in 1..Len(connections) :
                  ENABLED RecvDownloadRequest(connections[i].socket, "a.txt")
           /\ IF Str(last.filename) \in DOMAIN Files
              THEN /\ Len(sent) = 1
                   /\ sent[1].to = last.socket
                   /\ sent[1].data.header.type = "DOWNLOAD"
                   /\ sent[1].data.header.size = Len(Files[last.filename])
                   /\ sent[1].data.payload = Files[last.filename]
                   /\ errors = <<>>
              ELSE /\ sent = <<>>
                   /\ errors = <<"File not found: download/" \o Str(last.filename)>>

\* An Unidentified connection, registered after another Unidentified one,
\* asked for a.txt and got its three bytes.
C12_Witness ==
    /\ last.op = "download"
    /\ last.filename = "a.txt"
    /\ get_conn_by_socket(Before, last.socket) = 2
    /\ Before[1].username = None
    /\ Subject.username = None
    /\ Len(sent) = 1
    /\ sent[1].to = last.socket
    /\ sent[1].data.payload = "abc"

(***************************************************************************)
(* C13.  Round trip: for every packet type t and every length n >= 0,      *)
(* HeaderPacket.decode(HeaderPacket(t, n).to_bytes()) gives back t and n.  *)
(* A HeaderPacket carries a type and a size and no parameters.             *)
(***************************************************************************)
C13_HeaderRoundTrip ==
    (codec.stage = "read" /\ codec.type \in PacketTypeValues /\ codec.size >= 0)
        => /\ codec.result = [type |-> codec.type, size |-> codec.size]
           /\ Len(codec.bytes) = HEADER_SIZE

\* A DOWNLOAD header declaring 1024 bytes has been written and read back.
C13_Witness ==
    /\ codec.stage = "read"
    /\ codec.type = 8
    /\ codec.size = 1024
    /\ codec.result = [type |-> 8, size |-> 1024]

(***************************************************************************)
(* C14.  Decoding rejects every header whose declared length is negative   *)
(* and every header whose type is none of the nine packet types: it raises *)
(* and returns no (type, length) for such a header.                        *)
(***************************************************************************)
C14_DecodeRejects ==
    (codec.stage = "read" /\ (codec.size < 0 \/ codec.type \notin PacketTypeValues))
        => "raised" \in DOMAIN codec.result

(***************************************************************************)
(* C15.  Every frame built by the codec and every frame the server sends   *)
(* (announcement, duplicate-username, in-message, file list, download)     *)
(* declares in its header exactly the number of bytes that follow the      *)
(* HEADER_SIZE-byte header.                                                *)
(***************************************************************************)
C15_DeclaredLength ==
    /\ \A k \in 1..Len(sent) :
           sent[k].data.header.size = Len(sent[k].data.payload)
    /\ codec.stage = "framed"
           => /\ Len(codec.bytes) = HEADER_SIZE
              /\ decode(codec.bytes) =
                     [type |-> codec.type, size |-> Len(codec.body)]

\* An in-message packet with its sender parameter and its content has been
\* framed: PACKET_SIZE bytes of parameter, then the five bytes of "hello".
C15_Witness ==
    /\ codec.stage = "framed"
    /\ codec.type = 3
    /\ codec.params = <<"alice">>
    /\ codec.content = "hello"
    /\ decode(codec.bytes).size = PACKET_SIZE + 5

(***************************************************************************)
(* C17.  A send failure to one recipient during Server.broadcast does not  *)
(* abort the broadcast: when a connection leaves, every other Identified   *)
(* connection whose socket can be written still receives the departure     *)
(* announcement, and the event loop keeps running.                         *)
(***************************************************************************)
C17_BroadcastSurvivesSendFailure ==
    last.op = "close"
        => /\ running
           /\ \A j \in 1..Len(Before) :
                  (/\ Identified(Before[j])
                   /\ Before[j].socket # last.socket
                   /\ Before[j].username # Subject.username
                   /\ Before[j].socket \notin last.unwritable)
                      => LeftFrame(Str(Subject.username))
                             \in Range(FramesTo(Before[j].socket))

(***************************************************************************)
(* C18.  When a connection sends a malformed header (unknown type or       *)
(* invalid length) that connection is closed and deregistered and the      *)
(* event loop does not terminate.                                          *)
(***************************************************************************)
C18_MalformedHeaderContained ==
    last.op = "malformed"
        => /\ running
           /\ ~Registered(connections, last.socket)
           /\ last.socket \in closed

(***************************************************************************)
(* C19.  When a read on connection c fails with a socket error the server  *)
(* deregisters c, broadcasts its departure to the other Identified         *)
(* connections, and the event loop keeps running.                          *)
(***************************************************************************)
C19_ReadErrorContained ==
    last.op = "reset"
        => /\ running
           /\ ~Registered(connections, last.socket)
           /\ \A j \in 1..Len(Before) :
                  (Identified(Before[j]) /\ Before[j].socket # last.socket)
                      => LeftFrame(Str(Subject.username))
                             \in Range(FramesTo(Before[j].socket))

(***************************************************************************)
(* C16.  The server never dispatches a packet built from a short read: a   *)
(* message it relays is a payload as a client wrote it, and no socket is   *)
(* left holding the rest of a payload whose beginning was dispatched.      *)
(***************************************************************************)
C16_NoShortReadDispatched ==
    /\ last.op = "message" => last.message \in NetMessages
    /\ \A s \in Sockets : inbuf[s].state # "tail"

(***************************************************************************)
(* C20.  A client that sent a complete header and no payload cannot stall  *)
(* the server: while the loop runs and a registered socket holds a         *)
(* complete packet, the server has a step to take (it reads a socket, or   *)
(* the recv it waits in returns) without any client sending a further      *)
(* byte.                                                                   *)
(***************************************************************************)
C20_StalledClientHarmless ==
    (/\ running
     /\ \E s \in Sockets :
            /\ get_conn_by_socket(connections, s) # 0
            /\ inbuf[s].state = "frame"
            /\ inbuf[s].arrived = Len(inbuf[s].message))
        => ENABLED (\E s \in Sockets : ReadFrame(s) \/ RecvReturns(s) \/ ReadTail(s))

(***************************************************************************)
(* C21.  If binding or listening on the port fails in run_server, the      *)
(* server never enters the event loop: Server.listen runs only on a bound  *)
(* listening socket.                                                       *)
(***************************************************************************)
C21_NoListenAfterBindFailure ==
    proc.phase = "listen" => proc.bound

(***************************************************************************)
(* C22.  When shutdown is requested (Server.close) the listening socket    *)
(* and the socket of every connection still in Server.connections are      *)
(* closed before the process exits.                                        *)
(***************************************************************************)
C22_ShutdownClosesSockets ==
    proc.phase = "exited"
        => /\ proc.listener \in {"none", "closed"}
           /\ \A i \in 1..Len(connections) : connections[i].socket \in closed

(***************************************************************************)
(* C23.  An OUT_MESSAGE packet from a connection whose username is still   *)
(* unset is never relayed: the step sends nothing, and every IN_MESSAGE    *)
(* frame sent carries the username of an Identified sender.                *)
(***************************************************************************)
C23_UnidentifiedNotRelayed ==
    last.op = "message"
        => /\ ~Identified(Subject) => sent = <<>>
           /\ \A k \in 1..Len(sent) :
                  sent[k].data.header.type = "IN_MESSAGE"
                      => Truthy(sent[k].data.header.sender)

(***************************************************************************)
(* C24.  A USERNAME packet whose header carries no username parameter is   *)
(* no accepted claim: it changes no connection's username and no frame     *)
(* (join, welcome) is sent to any connection.                              *)
(***************************************************************************)
C24_ClaimWithoutNameIgnored ==
    (last.op = "username" /\ last.username = None)
        => /\ connections = Before
           /\ \A k \in 1..Len(sent) :
                  sent[k].data.header.type # "ANNOUNCEMENT"

(***************************************************************************)
(* C25.  When a connection that never became Identified is closed it is    *)
(* removed from Server.connections and no departure announcement is sent   *)
(* to any connection.                                                      *)
(***************************************************************************)
C25_SilentDepartureOfUnidentified ==
    (last.op = "close" /\ ~Identified(Subject))
        => /\ ~Registered(connections, last.socket)
           /\ sent = <<>>

(***************************************************************************)
(* C26.  Under every interleaving of the client's console thread and its   *)
(* response thread: once the DUPLICATE_USERNAME reply to the client's most *)
(* recent username claim has been processed, the next non-empty input line *)
(* is sent as a new USERNAME claim and never as a chat message.            *)
(***************************************************************************)
C26_RejectedClaimAsksAgain ==
    ~(client.pc # "idle" /\ client.line.as = "message" /\ client.line.due)

TypeOK ==
    /\ accepted \in 0..MaxSock
    /\ closed \subseteq 1..accepted
    /\ running \in BOOLEAN
    /\ \A i \in 1..Len(connections) :
          /\ connections[i].socket \in 1..accepted
          /\ connections[i].username \in ParamValues
====
